---------------------------- MODULE Spec2Model ----------------------------
(***************************************************************************)
(* The business layer of kiali: the process-wide globals of package        *)
(* business (client factory, cache, Prometheus and Jaeger clients, the     *)
(* sync.Once guarding set-up), Start / Stop / Get / the Jaeger loader run  *)
(* by concurrent goroutines, and the TLS service of a layer; and, in the   *)
(* browser, LoginDispatcher.prepare() over its login strategies.           *)
(*                                                                         *)
(* Every goroutine step is one atomic action; a step ends where the code   *)
(* calls out (client factory, Prometheus, Jaeger, cache construction) or   *)
(* reads or writes a package-level variable that another goroutine may     *)
(* write.  SetWithBackends ("used only with tests") is not an operation    *)
(* of the running process and is left out.                                 *)
(***************************************************************************)
EXTENDS Integers, Sequences, FiniteSets, TLC

\* ------------------------------------------------------------------ bounds
NumThreads == 2
MaxLayers  == 2
MaxProm    == 2
MaxJaeger  == 2
MaxStops   == 2    \* Stop() calls that reach the cache
TickMs     == 1000 \* the step in which the browser's time passes

\* delay(ms = 3000) of LoginDispatcher.prepare
HoldDelayMs == 3000

Threads    == 1..NumThreads
Identities == {"alice", "bob"}
Namespaces == {"istio-system", "default"}
Kinds      == {"", "PeerAuthentication", "DestinationRule"}

Nil == "nil"

VARIABLES
  pc,               \* pc[t]: where goroutine t stands
  authInfo,         \* authInfo[t]: the identity (token) of t's Get call
  userClients,      \* userClients[t]: the local of Get
  usedLayer,        \* usedLayer[t]: the layer whose loader t is running
  jerr,             \* jerr[t]: the local err of the loader closure
  overlapped,       \* overlapped[t]: another Get ran during t's Get
  enteredAfterProm, \* enteredAfterProm[t]: a Prometheus client had been built when t's Get began
  enteredAfterJaeger, \* the same for the loader and the Jaeger client
  ret,              \* ret[t]: what t's last call returned
  seen,             \* seen[t]: the globals as t found them when Start() returned
  once,             \* sync.Once: [done, m]; m is the goroutine holding the mutex, 0 if free
  excludedWorkloads,
  clientFactory,
  kialiCache,       \* the global cache handle: Nil or "cache"
  cacheObj,         \* the cache object under construction or built: [state, ns, kinds]
  prometheusClient, \* 0 (nil) or the number of the client
  jaegerClient,     \* NoJaeger (nil) or [id, token]
  cfg,              \* config.Get(): [CacheEnabled, AllNamespacesAccessible]
  namespaceSeedList, \* namespaceSeedList[t]: the local of initKialiCache
  layers,           \* the layers built so far, by number
  promBuilt,        \* Prometheus clients constructed so far
  jaegerBuilt,      \* Jaeger clients constructed so far
  initRuns,         \* executions of initKialiCache begun
  initOutcome,      \* "none", "running", "ok", "failed"
  istioConfigMap,   \* the control plane's config object: "on", "off" (enableAutoMtls) or "bad"
  lastCall,         \* the call of a TLS service method under way or last made
  tlsPc,            \* where that call stands
  resolved,         \* resolved[l]: how the last config lookup made for layer l's TLS service ended
  cacheStops,       \* invocations of kialiCache.Stop() so far
  login             \* the browser's LoginDispatcher.prepare() call under way or last made

vars == <<pc, authInfo, userClients, usedLayer, jerr, overlapped, enteredAfterProm,
          enteredAfterJaeger, ret, seen, once, excludedWorkloads, clientFactory,
          kialiCache, cacheObj, prometheusClient, jaegerClient, cfg,
          namespaceSeedList, layers,
          promBuilt, jaegerBuilt, initRuns, initOutcome, istioConfigMap, lastCall, tlsPc,
          resolved, cacheStops, login>>

locals   == <<authInfo, userClients, usedLayer, jerr, overlapped, enteredAfterProm,
              enteredAfterJaeger>>
getLocals == <<authInfo, userClients, overlapped, enteredAfterProm>>
jlLocals == <<usedLayer, jerr, enteredAfterJaeger>>
setupVars == <<once, excludedWorkloads, clientFactory, kialiCache, cacheObj,
               namespaceSeedList, initRuns, initOutcome, seen>>
lazyVars == <<prometheusClient, jaegerClient, promBuilt, jaegerBuilt>>
tlsVars  == <<istioConfigMap, lastCall, tlsPc, resolved>>
\* What bring-up, Get, the loader and the TLS service leave alone: the
\* configuration, the cache's tear-down and the browser's login.
aside    == <<cfg, cacheStops, login>>

\* The nil values of the record-valued variables.
NoJaeger  == [id |-> 0, token |-> Nil]
NoClients == [owner |-> Nil, identity |-> Nil]
NotSeen   == [returned |-> FALSE, cf |-> Nil, kc |-> Nil]
NoRet     == [op |-> "none", layer |-> 0, client |-> NoJaeger, err |-> FALSE,
              errFrom |-> "none"]

\* A LoginDispatcher.prepare() call: the authenticationConfig
\* it reads (strategy, authorizationEndpoint), window.location.hash, how the
\* strategy's promise settled (kind, value), the time spent in delay(), and
\* how the promise of prepare() settled (settled, value or status and error).
NoOutcome   == [kind |-> "none", value |-> ""]
NoLogin     == [pc |-> "idle", strategy |-> "", authorizationEndpoint |-> Nil,
                hash |-> <<>>, outcome |-> NoOutcome, waited |-> 0,
                settled |-> "none", value |-> "", status |-> "", error |-> ""]

\* config.Get(): the root namespace and the control plane's namespace.
RootNamespace  == "istio-system"
IstioNamespace == "istio-system"

\* models.MTLSStatus{} and the labels of a status.
MTLSLabels == {"MTLS_ENABLED", "MTLS_PARTIALLY_ENABLED", "MTLS_NOT_ENABLED", "MTLS_DISABLED"}
ZeroStatus == [Status |-> "", Namespace |-> ""]
NoInput    == [Namespace |-> "", PeerAuthentications |-> <<>>, DestinationRules |-> <<>>,
               AutoMtlsEnabled |-> FALSE, AllowPermissive |-> FALSE]
NoList     == [pas |-> <<>>, drs |-> <<>>]
NoService  == [k8s |-> [owner |-> Nil, identity |-> Nil], businessLayer |-> 0,
               enabledAutoMtls |-> Nil]
\* A call of a TLS service method: its receiver in, its arguments, the locals
\* nss and istioConfigList (list), the mtls.MtlsStatus it builds (input), what
\* it returns (result, err), which services and how many config-object
\* lookups it used, how hasAutoMTLSEnabled ended (outcome), which listing
\* failed (failedAt), and how the layer's last lookup before it had ended.
NoCall     == [op |-> "none", layer |-> 0, in |-> NoService, namespaces |-> {},
               namespace |-> "", namespacesListedBy |-> 0, nss |-> {},
               configListedBy |-> 0, list |-> NoList, lookups |-> 0,
               lookupVia |-> "none", outcome |-> "none", failedAt |-> "none",
               before |-> "never", scored |-> FALSE, input |-> NoInput,
               result |-> ZeroStatus, err |-> FALSE]

Init ==
  /\ pc = [t \in Threads |-> "idle"]
  /\ authInfo = [t \in Threads |-> Nil]
  /\ userClients = [t \in Threads |-> NoClients]
  /\ usedLayer = [t \in Threads |-> 0]
  /\ jerr = [t \in Threads |-> FALSE]
  /\ overlapped = [t \in Threads |-> FALSE]
  /\ enteredAfterProm = [t \in Threads |-> FALSE]
  /\ enteredAfterJaeger = [t \in Threads |-> FALSE]
  /\ ret = [t \in Threads |-> NoRet]
  /\ seen = [t \in Threads |-> NotSeen]
  /\ once = [done |-> FALSE, m |-> 0]
  /\ excludedWorkloads = Nil
  /\ clientFactory = Nil
  /\ kialiCache = Nil
  /\ cacheObj = [state |-> "none", ns |-> {}, kinds |-> {}]
  /\ prometheusClient = 0
  /\ jaegerClient = NoJaeger
  /\ cfg \in [CacheEnabled : BOOLEAN, AllNamespacesAccessible : BOOLEAN]
  /\ namespaceSeedList = [t \in Threads |-> {}]
  /\ layers = <<>>
  /\ promBuilt = 0
  /\ jaegerBuilt = 0
  /\ initRuns = 0
  /\ initOutcome = "none"
  /\ istioConfigMap = "on"
  /\ lastCall = NoCall
  /\ tlsPc = "idle"
  /\ resolved = [l \in 1..MaxLayers |-> "never"]
  /\ cacheStops = 0
  /\ login = NoLogin

\* ------------------------------------------------- the cache's own queries
\* kialiCache.CheckNamespace / CheckIstioResource: answered by the cache object.
CheckNamespace(namespace) == namespace \in cacheObj.ns

CheckIstioResource(resource) == resource \in cacheObj.kinds

IsNamespaceCached(namespace) ==
  kialiCache /= Nil /\ CheckNamespace(namespace)

IsResourceCachedAnyNamespace(namespace, resource) ==
  kialiCache /= Nil /\ (resource = "" \/ CheckIstioResource(resource))

IsResourceCached(namespace, resource) ==
  LET ok == IsNamespaceCached(namespace)
  IN  IF ok /\ resource /= "" THEN CheckIstioResource(resource) ELSE ok

\* ------------------------------------------------------ Start and sync.Once
\* Start() returns to goroutine t, which finds the globals as they are now.
StartReturns(t) ==
  /\ pc' = [pc EXCEPT ![t] = "idle"]
  /\ ret' = [ret EXCEPT ![t] = [NoRet EXCEPT !.op = "Start"]]
  /\ seen' = [seen EXCEPT ![t] = [returned |-> TRUE, cf |-> clientFactory, kc |-> kialiCache]]

Start(t) ==
  /\ pc[t] = "idle"
  /\ pc' = [pc EXCEPT ![t] = "once_do"]
  /\ ret' = [ret EXCEPT ![t] = NoRet]
  /\ UNCHANGED <<locals, setupVars, lazyVars, aside, layers, tlsVars>>

\* A once that marks itself done before f has run: a second caller returns
\* while the first is still inside f.
OnceDoMarkFirst(t) ==
  /\ pc[t] = "once_do"
  /\ IF once.done
       THEN /\ StartReturns(t)
            /\ UNCHANGED <<once, initRuns, initOutcome>>
       ELSE /\ once' = [once EXCEPT !.done = TRUE]
            /\ initRuns' = initRuns + 1
            /\ initOutcome' = "running"
            /\ pc' = [pc EXCEPT ![t] = "init_factory"]
            /\ UNCHANGED <<ret, seen>>
  /\ UNCHANGED <<locals, excludedWorkloads, clientFactory, kialiCache, cacheObj,
                 namespaceSeedList, lazyVars, aside, layers, tlsVars>>

\* once.Do: the fast path, if o.done.Load() == 0 { o.doSlow(f) }
OnceDo(t) ==
  /\ pc[t] = "once_do"
  /\ IF once.done
       THEN /\ StartReturns(t)
       ELSE /\ pc' = [pc EXCEPT ![t] = "once_slow"]
            /\ UNCHANGED <<ret, seen>>
  /\ UNCHANGED <<locals, once, excludedWorkloads, clientFactory, kialiCache, cacheObj,
                 namespaceSeedList, initRuns, initOutcome, lazyVars, aside, layers, tlsVars>>

\* A doSlow that does not look at done again once it holds the mutex.
OnceDoSlowNoRecheck(t) ==
  /\ pc[t] = "once_slow"
  /\ once.m = 0
  /\ once' = [once EXCEPT !.m = t]
  /\ initRuns' = initRuns + 1
  /\ initOutcome' = "running"
  /\ pc' = [pc EXCEPT ![t] = "init_factory"]
  /\ UNCHANGED <<ret, seen, locals, excludedWorkloads, clientFactory, kialiCache,
                 cacheObj, namespaceSeedList, lazyVars, aside, layers, tlsVars>>

\* doSlow: o.m.Lock(); if o.done.Load() == 0 { defer o.done.Store(1); f() }
OnceDoSlow(t) ==
  /\ pc[t] = "once_slow"
  /\ once.m = 0
  /\ IF once.done
       THEN /\ StartReturns(t)
            /\ UNCHANGED <<once, initRuns, initOutcome>>
       ELSE /\ once' = [once EXCEPT !.m = t]
            /\ initRuns' = initRuns + 1
            /\ initOutcome' = "running"
            /\ pc' = [pc EXCEPT ![t] = "init_factory"]
            /\ UNCHANGED <<ret, seen>>
  /\ UNCHANGED <<locals, excludedWorkloads, clientFactory, kialiCache, cacheObj,
                 namespaceSeedList, lazyVars, aside, layers, tlsVars>>

\* f has returned: the deferred done.Store(1) and m.Unlock(), then Start returns.
OnceReturn(t) ==
  /\ pc[t] = "once_ret"
  /\ once' = [done |-> TRUE, m |-> 0]
  /\ StartReturns(t)
  /\ UNCHANGED <<locals, excludedWorkloads, clientFactory, kialiCache, cacheObj,
                 namespaceSeedList, initRuns, initOutcome, lazyVars, aside, layers, tlsVars>>

\* ---------------------------------------------------------- initKialiCache
\* initKialiCache returns early after logging an error.
InitFails(t) ==
  /\ pc' = [pc EXCEPT ![t] = "once_ret"]
  /\ initOutcome' = "failed"

\* excludedWorkloads, then kubernetes.GetClientFactory().
InitFactory(t) ==
  /\ pc[t] = "init_factory"
  /\ excludedWorkloads' = IF excludedWorkloads = Nil THEN "set" ELSE excludedWorkloads
  /\ \E ok \in BOOLEAN :
       IF ~ok
         THEN /\ InitFails(t)
              /\ UNCHANGED clientFactory
         ELSE /\ clientFactory' = "factory"
              /\ IF cfg.CacheEnabled
                   THEN /\ pc' = [pc EXCEPT ![t] =
                                    IF cfg.AllNamespacesAccessible THEN "init_cache"
                                                                   ELSE "init_seed"]
                        /\ UNCHANGED initOutcome
                   ELSE /\ pc' = [pc EXCEPT ![t] = "once_ret"]
                        /\ initOutcome' = "ok"
  /\ UNCHANGED <<ret, seen, locals, once, kialiCache, cacheObj, namespaceSeedList,
                 initRuns, lazyVars, aside, layers, tlsVars>>

\* The namespace-scoped cache: initNamespaceService.GetNamespaces(...).
InitSeed(t) ==
  /\ pc[t] = "init_seed"
  /\ \/ /\ InitFails(t)
        /\ UNCHANGED namespaceSeedList
     \/ \E nss \in SUBSET Namespaces :
          /\ namespaceSeedList' = [namespaceSeedList EXCEPT ![t] = nss]
          /\ pc' = [pc EXCEPT ![t] = "init_cache"]
          /\ UNCHANGED initOutcome
  /\ UNCHANGED <<ret, seen, locals, once, excludedWorkloads, clientFactory, kialiCache,
                 cacheObj, initRuns, lazyVars, aside, layers, tlsVars>>

\* cache.NewKialiCache(...) is entered: the cache object is being populated.
InitNewCache(t) ==
  /\ pc[t] = "init_cache"
  /\ \E kinds \in SUBSET (Kinds \ {""}) :
       cacheObj' = [state |-> "building",
                    ns    |-> IF cfg.AllNamespacesAccessible THEN Namespaces
                              ELSE namespaceSeedList[t],
                    kinds |-> kinds]
  /\ pc' = [pc EXCEPT ![t] = "init_cache_end"]
  /\ UNCHANGED <<ret, seen, locals, once, excludedWorkloads, clientFactory, kialiCache,
                 namespaceSeedList, initRuns, initOutcome, lazyVars, aside, layers, tlsVars>>

\* A set-up that publishes the cache handle although NewKialiCache failed.
InitNewCacheEndKeepsBroken(t) ==
  /\ pc[t] = "init_cache_end"
  /\ \E ok \in BOOLEAN :
       /\ cacheObj' = [cacheObj EXCEPT !.state = IF ok THEN "built" ELSE "broken"]
       /\ initOutcome' = IF ok THEN "ok" ELSE "failed"
  /\ kialiCache' = "cache"
  /\ pc' = [pc EXCEPT ![t] = "once_ret"]
  /\ UNCHANGED <<ret, seen, locals, once, excludedWorkloads, clientFactory,
                 namespaceSeedList, initRuns, lazyVars, aside, layers, tlsVars>>

\* cache.NewKialiCache(...) returns; kialiCache = cache only without an error.
InitNewCacheEnd(t) ==
  /\ pc[t] = "init_cache_end"
  /\ \/ /\ InitFails(t)
        /\ cacheObj' = [cacheObj EXCEPT !.state = "broken"]
        /\ UNCHANGED kialiCache
     \/ /\ cacheObj' = [cacheObj EXCEPT !.state = "built"]
        /\ kialiCache' = "cache"
        /\ initOutcome' = "ok"
        /\ pc' = [pc EXCEPT ![t] = "once_ret"]
  /\ UNCHANGED <<ret, seen, locals, once, excludedWorkloads, clientFactory,
                 namespaceSeedList, initRuns, lazyVars, aside, layers, tlsVars>>

\* ------------------------------------------------------------------- Get
InGet(u) == pc[u] \in {"get_clients", "get_prom", "get_prom_new", "get_build"}

\* clientFactory.GetClients(authInfo): the caller's clients, scoped to the identity.
GetClientsOf(cf, identity) == [owner |-> cf, identity |-> identity]

\* clientFactory.GetSAClients(): the factory's one privileged client set.
GetSAClients(cf) == [owner |-> cf, identity |-> "kiali-sa"]

\* A builder that hands the caller's clients to the services that take the
\* service-account clients.
NewWithBackendsUserAsSA(n, uClients, kialiSAClients, prom, token) ==
  [id          |-> n,
   IstioConfig |-> [k8s |-> uClients, businessLayer |-> n],
   Jaeger      |-> [loaderToken |-> token, businessLayer |-> n],
   k8sClients  |-> uClients,
   Namespace   |-> [userClients |-> uClients, kialiSAClients |-> uClients],
   prom        |-> prom,
   TLS         |-> [k8s |-> uClients, businessLayer |-> n, enabledAutoMtls |-> Nil],
   Workload    |-> [k8s |-> IF cfg.CacheEnabled THEN "cachingClient" ELSE "userClient",
                    cache |-> kialiCache, businessLayer |-> n]]

\* A builder whose TLS services all refer back to the first layer built.
NewWithBackendsFirstLayerOwns(n, uClients, kialiSAClients, prom, token) ==
  [id          |-> n,
   IstioConfig |-> [k8s |-> uClients, businessLayer |-> n],
   Jaeger      |-> [loaderToken |-> token, businessLayer |-> n],
   k8sClients  |-> uClients,
   Namespace   |-> [userClients |-> uClients, kialiSAClients |-> kialiSAClients],
   prom        |-> prom,
   TLS         |-> [k8s |-> uClients, businessLayer |-> 1, enabledAutoMtls |-> Nil],
   Workload    |-> [k8s |-> IF cfg.CacheEnabled THEN "cachingClient" ELSE "userClient",
                    cache |-> kialiCache, businessLayer |-> n]]

\* NewWithBackends: temporaryLayer := &Layer{} (the n-th allocation) and its services.
NewWithBackends(n, uClients, kialiSAClients, prom, token) ==
  [id          |-> n,
   IstioConfig |-> [k8s |-> uClients, businessLayer |-> n],
   Jaeger      |-> [loaderToken |-> token, businessLayer |-> n],
   k8sClients  |-> uClients,
   Namespace   |-> [userClients |-> uClients, kialiSAClients |-> kialiSAClients],
   prom        |-> prom,
   TLS         |-> [k8s |-> uClients, businessLayer |-> n, enabledAutoMtls |-> Nil],
   Workload    |-> [k8s |-> IF cfg.CacheEnabled THEN "cachingClient" ELSE "userClient",
                    cache |-> kialiCache, businessLayer |-> n]]

\* Some Start() has returned: the process serves requests after bring-up.
Started == \E u \in Threads : seen[u].returned

\* A request handler calls Get(authInfo).
Get(t) ==
  /\ pc[t] = "idle"
  /\ Started
  /\ Len(layers) + Cardinality({u \in Threads : InGet(u)}) < MaxLayers
  /\ \E a \in Identities : authInfo' = [authInfo EXCEPT ![t] = a]
  /\ pc' = [pc EXCEPT ![t] = "get_clients"]
  /\ ret' = [ret EXCEPT ![t] = NoRet]
  /\ overlapped' = [u \in Threads |->
                      IF u = t THEN \E v \in Threads \ {t} : InGet(v)
                      ELSE IF InGet(u) THEN TRUE ELSE overlapped[u]]
  /\ enteredAfterProm' = [enteredAfterProm EXCEPT ![t] = promBuilt > 0]
  /\ userClients' = [userClients EXCEPT ![t] = NoClients]
  /\ UNCHANGED <<jlLocals, setupVars, lazyVars, aside, layers, tlsVars>>

\* Get returns: its locals are gone (overlapped is kept for the caller's record).
GetReturns(t, r) ==
  /\ pc' = [pc EXCEPT ![t] = "idle"]
  /\ ret' = [ret EXCEPT ![t] = r]
  /\ authInfo' = [authInfo EXCEPT ![t] = Nil]
  /\ userClients' = [userClients EXCEPT ![t] = NoClients]
  /\ enteredAfterProm' = [enteredAfterProm EXCEPT ![t] = FALSE]

\* A Get that drops the metrics client when the identity is rejected.
GetClientsClearsMetrics(t) ==
  /\ pc[t] = "get_clients"
  /\ IF clientFactory = Nil
       THEN /\ pc' = [pc EXCEPT ![t] = "panic"]
            /\ UNCHANGED <<ret, authInfo, userClients, enteredAfterProm, prometheusClient>>
       ELSE \/ /\ GetReturns(t, [NoRet EXCEPT !.op = "Get", !.err = TRUE,
                                               !.errFrom = "GetClients"])
               /\ prometheusClient' = 0
            \/ /\ userClients' = [userClients EXCEPT ![t] =
                                    GetClientsOf(clientFactory, authInfo[t])]
               /\ pc' = [pc EXCEPT ![t] = "get_prom"]
               /\ UNCHANGED <<ret, authInfo, enteredAfterProm, prometheusClient>>
  /\ UNCHANGED <<overlapped, jlLocals, setupVars, jaegerClient, promBuilt, jaegerBuilt,
                 aside, layers, tlsVars>>

\* userClients, err := clientFactory.GetClients(authInfo)
GetClients(t) ==
  /\ pc[t] = "get_clients"
  /\ IF clientFactory = Nil
       THEN \* a method call on a nil interface: the goroutine panics
            /\ pc' = [pc EXCEPT ![t] = "panic"]
            /\ UNCHANGED <<ret, authInfo, userClients, enteredAfterProm>>
       ELSE \/ GetReturns(t, [NoRet EXCEPT !.op = "Get", !.err = TRUE,
                                            !.errFrom = "GetClients"])
            \/ /\ userClients' = [userClients EXCEPT ![t] =
                                    GetClientsOf(clientFactory, authInfo[t])]
               /\ pc' = [pc EXCEPT ![t] = "get_prom"]
               /\ UNCHANGED <<ret, authInfo, enteredAfterProm>>
  /\ UNCHANGED <<overlapped, jlLocals, setupVars, lazyVars, aside, layers, tlsVars>>

\* if prometheusClient == nil
GetPromCheck(t) ==
  /\ pc[t] = "get_prom"
  /\ pc' = [pc EXCEPT ![t] = IF prometheusClient = 0 THEN "get_prom_new" ELSE "get_build"]
  /\ UNCHANGED <<ret, locals, setupVars, lazyVars, aside, layers, tlsVars>>

\* prom, err := prometheus.NewClient(), then prometheusClient = nil or = prom
GetPromNew(t) ==
  /\ pc[t] = "get_prom_new"
  /\ \/ /\ prometheusClient' = 0
        /\ GetReturns(t, [NoRet EXCEPT !.op = "Get", !.err = TRUE,
                                        !.errFrom = "prometheus.NewClient"])
        /\ UNCHANGED promBuilt
     \/ /\ promBuilt < MaxProm
        /\ promBuilt' = promBuilt + 1
        /\ prometheusClient' = promBuilt + 1
        /\ pc' = [pc EXCEPT ![t] = "get_build"]
        /\ UNCHANGED <<ret, authInfo, userClients, enteredAfterProm>>
  /\ UNCHANGED <<overlapped, jlLocals, setupVars, jaegerClient, jaegerBuilt, aside, layers, tlsVars>>

\* kialiSAClient := clientFactory.GetSAClients(); return NewWithBackends(...), nil
GetBuild(t) ==
  /\ pc[t] = "get_build"
  /\ layers' = Append(layers,
                      NewWithBackends(Len(layers) + 1, userClients[t],
                                      GetSAClients(clientFactory), prometheusClient,
                                      authInfo[t]))
  /\ GetReturns(t, [NoRet EXCEPT !.op = "Get", !.layer = Len(layers) + 1])
  /\ UNCHANGED <<overlapped, jlLocals, setupVars, lazyVars, aside, tlsVars>>

\* ------------------------------------------------------- the Jaeger loader
\* A service of layer l calls the layer's loader.
JaegerLoader(t) ==
  /\ pc[t] = "idle"
  /\ \E l \in 1..Len(layers) : usedLayer' = [usedLayer EXCEPT ![t] = l]
  /\ jerr' = [jerr EXCEPT ![t] = FALSE]
  /\ enteredAfterJaeger' = [enteredAfterJaeger EXCEPT ![t] = jaegerBuilt > 0]
  /\ pc' = [pc EXCEPT ![t] = "jl_check"]
  /\ ret' = [ret EXCEPT ![t] = NoRet]
  /\ UNCHANGED <<getLocals, setupVars, lazyVars, aside, layers, tlsVars>>

\* if jaegerClient == nil
JlCheck(t) ==
  /\ pc[t] = "jl_check"
  /\ pc' = [pc EXCEPT ![t] = IF jaegerClient = NoJaeger THEN "jl_new" ELSE "jl_ret"]
  /\ UNCHANGED <<ret, locals, setupVars, lazyVars, aside, layers, tlsVars>>

\* jaegerClient, err = jaeger.NewClient(authInfo.Token); if err != nil { jaegerClient = nil }
JlNew(t) ==
  /\ pc[t] = "jl_new"
  /\ \/ /\ jaegerClient' = NoJaeger
        /\ jerr' = [jerr EXCEPT ![t] = TRUE]
        /\ UNCHANGED jaegerBuilt
     \/ /\ jaegerBuilt < MaxJaeger
        /\ jaegerBuilt' = jaegerBuilt + 1
        /\ jaegerClient' = [id |-> jaegerBuilt + 1,
                            token |-> layers[usedLayer[t]].Jaeger.loaderToken]
        /\ UNCHANGED jerr
  /\ pc' = [pc EXCEPT ![t] = "jl_ret"]
  /\ UNCHANGED <<ret, getLocals, usedLayer, enteredAfterJaeger, setupVars,
                 prometheusClient, promBuilt, aside, layers, tlsVars>>

\* return jaegerClient, err
JlRet(t) ==
  /\ pc[t] = "jl_ret"
  /\ ret' = [ret EXCEPT ![t] = [NoRet EXCEPT !.op = "Jaeger", !.layer = usedLayer[t],
                                             !.client = jaegerClient, !.err = jerr[t]]]
  /\ pc' = [pc EXCEPT ![t] = "idle"]
  /\ usedLayer' = [usedLayer EXCEPT ![t] = 0]
  /\ jerr' = [jerr EXCEPT ![t] = FALSE]
  /\ UNCHANGED <<getLocals, enteredAfterJaeger, setupVars, lazyVars, aside, layers, tlsVars>>

\* ------------------------------------------------------------------- Stop
\* Stop(): the test of the cache handle; with no cache it returns at once.
Stop(t) ==
  /\ pc[t] = "idle"
  /\ IF kialiCache /= Nil
       THEN /\ cacheStops + Cardinality({u \in Threads : pc[u] = "stop_cache"}) < MaxStops
            /\ pc' = [pc EXCEPT ![t] = "stop_cache"]
            /\ UNCHANGED ret
       ELSE /\ pc' = [pc EXCEPT ![t] = "idle"]
            /\ ret' = [ret EXCEPT ![t] = [NoRet EXCEPT !.op = "Stop"]]
  /\ UNCHANGED <<locals, setupVars, lazyVars, aside, layers, tlsVars>>

\* kialiCache.Stop(), and the return; the handle is left as it is.
StopCache(t) ==
  /\ pc[t] = "stop_cache"
  /\ cacheStops' = cacheStops + 1
  /\ pc' = [pc EXCEPT ![t] = "idle"]
  /\ ret' = [ret EXCEPT ![t] = [NoRet EXCEPT !.op = "Stop"]]
  /\ UNCHANGED <<locals, setupVars, lazyVars, cfg, login, layers, tlsVars>>

\* ---------------------------------------------------------- the TLS service
\* The peer authentications and destination rules a config listing can return.
AllPeerAuthentications == <<[Name |-> "pa-root", Namespace |-> "istio-system"],
                            [Name |-> "pa-default", Namespace |-> "default"]>>
AllDestinationRules    == <<[Name |-> "dr-root", Namespace |-> "istio-system"],
                            [Name |-> "dr-default", Namespace |-> "default"]>>

Range(seq) == {seq[i] : i \in 1..Len(seq)}

\* config.IsRootNamespace
IsRootNamespace(namespace) == namespace = RootNamespace

\* kubernetes.FilterPeerAuthenticationByNamespace
FilterPeerAuthenticationByNamespace(namespace, pas) ==
  SelectSeq(pas, LAMBDA pa : pa.Namespace = namespace)

\* kubernetes.FilterDestinationRulesByNamespaces
FilterDestinationRulesByNamespaces(namespaces, drs) ==
  SelectSeq(drs, LAMBDA dr : dr.Namespace \in namespaces)

\* A resolution that keeps the fail-open answer on the service.
hasAutoMTLSEnabledStoresDefault(tls, getErr, content) ==
  IF tls.enabledAutoMtls /= Nil
    THEN [ret |-> tls.enabledAutoMtls = "true", tls |-> tls, lookups |-> 0, via |-> "none",
          outcome |-> "stored"]
    ELSE LET via == IF IsNamespaceCached(IstioNamespace) THEN "cache" ELSE "k8s"
             ans == getErr \/ content \in {"bad", "on"}
         IN  [ret |-> ans,
              tls |-> [tls EXCEPT !.enabledAutoMtls = IF ans THEN "true" ELSE "false"],
              lookups |-> 1, via |-> via,
              outcome |-> IF getErr THEN "lookup_failed"
                          ELSE IF content = "bad" THEN "parse_failed" ELSE "resolved"]

\* hasAutoMTLSEnabled on the service value tls; getErr is the error of
\* GetConfigMap, content what the object holds.
\* [ret, tls, lookups, via, outcome]
hasAutoMTLSEnabled(tls, getErr, content) ==
  IF tls.enabledAutoMtls /= Nil
    THEN [ret |-> tls.enabledAutoMtls = "true", tls |-> tls, lookups |-> 0, via |-> "none",
          outcome |-> "stored"]
    ELSE LET via == IF IsNamespaceCached(IstioNamespace) THEN "cache" ELSE "k8s"
         IN  IF getErr
               THEN [ret |-> TRUE, tls |-> tls, lookups |-> 1, via |-> via,
                     outcome |-> "lookup_failed"]
             ELSE IF content = "bad"   \* kubernetes.GetIstioConfigMap fails
               THEN [ret |-> TRUE, tls |-> tls, lookups |-> 1, via |-> via,
                     outcome |-> "parse_failed"]
             ELSE [ret |-> content = "on",
                   tls |-> [tls EXCEPT !.enabledAutoMtls =
                                         IF content = "on" THEN "true" ELSE "false"],
                   lookups |-> 1, via |-> via, outcome |-> "resolved"]

\* How the last lookup made for a layer ended, after a call of hasAutoMTLSEnabled.
LastLookup(was, auto) ==
  IF auto.lookups = 0 THEN was
  ELSE IF auto.outcome = "resolved" THEN "ok" ELSE "failed"

\* A mesh status that takes the peer authentications of the given namespaces.
MeshMtlsInputOfNamespaces(namespaces, list, auto) ==
  [Namespace           |-> "",
   PeerAuthentications |-> SelectSeq(list.pas, LAMBDA pa : pa.Namespace \in namespaces),
   DestinationRules    |-> FilterDestinationRulesByNamespaces(namespaces, list.drs),
   AutoMtlsEnabled     |-> auto,
   AllowPermissive     |-> FALSE]

\* The mtls.MtlsStatus value MeshWidemTLSStatus builds.
MeshMtlsInput(namespaces, list, auto) ==
  [Namespace           |-> "",
   PeerAuthentications |-> FilterPeerAuthenticationByNamespace(RootNamespace, list.pas),
   DestinationRules    |-> FilterDestinationRulesByNamespaces(namespaces, list.drs),
   AutoMtlsEnabled     |-> auto,
   AllowPermissive     |-> FALSE]

\* A namespace status that does not tell the scoring which namespace it scores.
NamespaceMtlsInputUntagged(namespace, nss, list, auto) ==
  [Namespace           |-> "",
   PeerAuthentications |-> IF IsRootNamespace(namespace) THEN <<>>
                           ELSE FilterPeerAuthenticationByNamespace(namespace, list.pas),
   DestinationRules    |-> FilterDestinationRulesByNamespaces(nss, list.drs),
   AutoMtlsEnabled     |-> auto,
   AllowPermissive     |-> FALSE]

\* A namespace status that scores the root namespace like any other.
NamespaceMtlsInputRootKept(namespace, nss, list, auto) ==
  [Namespace           |-> namespace,
   PeerAuthentications |-> FilterPeerAuthenticationByNamespace(namespace, list.pas),
   DestinationRules    |-> FilterDestinationRulesByNamespaces(nss, list.drs),
   AutoMtlsEnabled     |-> auto,
   AllowPermissive     |-> FALSE]

\* The mtls.MtlsStatus value NamespaceWidemTLSStatus builds.
NamespaceMtlsInput(namespace, nss, list, auto) ==
  [Namespace           |-> namespace,
   PeerAuthentications |-> IF IsRootNamespace(namespace) THEN <<>>
                           ELSE FilterPeerAuthenticationByNamespace(namespace, list.pas),
   DestinationRules    |-> FilterDestinationRulesByNamespaces(nss, list.drs),
   AutoMtlsEnabled     |-> auto,
   AllowPermissive     |-> FALSE]

\* models.MTLSStatus{Status: ...}: the value both methods return.
MTLSStatusOf(overallStatus) == [Status |-> overallStatus, Namespace |-> ""]

\* The config objects a listing can return: those of the namespaces that
\* hold any, in the order of the listing.
ConfigLists ==
  {[pas |-> SelectSeq(AllPeerAuthentications, LAMBDA pa : pa.Namespace \in S),
    drs |-> SelectSeq(AllDestinationRules, LAMBDA dr : dr.Namespace \in S)] :
     S \in SUBSET Namespaces}

\* A status call is followed one request at a time: calls on different layers
\* share nothing but the cache handle and the control plane.  Each step ends
\* where the method calls out.

\* in.MeshWidemTLSStatus(namespaces) is called on layer l's TLS service
\* (pointer receiver: in is the layer's own service).
MeshWidemTLSStatus(l) ==
  /\ tlsPc = "idle"
  /\ l \in 1..Len(layers)
  /\ \E namespaces \in SUBSET Namespaces :
       lastCall' = [NoCall EXCEPT !.op = "MeshWidemTLSStatus", !.layer = l,
                                  !.namespaces = namespaces, !.in = layers[l].TLS,
                                  !.before = resolved[l]]
  /\ tlsPc' = "mesh_list"
  /\ UNCHANGED <<pc, ret, locals, setupVars, lazyVars, aside, layers, istioConfigMap, resolved>>

\* in.businessLayer.IstioConfig.GetIstioConfigList(criteria), and the return on its error
MeshList ==
  /\ tlsPc = "mesh_list"
  /\ LET listing == [lastCall EXCEPT !.configListedBy =
                        layers[lastCall.in.businessLayer].IstioConfig.businessLayer]
     IN  \/ /\ lastCall' = [listing EXCEPT !.failedAt = "config", !.err = TRUE,
                                               !.result = ZeroStatus]
            /\ tlsPc' = "idle"
         \/ /\ \E list \in ConfigLists : lastCall' = [listing EXCEPT !.list = list]
            /\ tlsPc' = "mesh_auto"
  /\ UNCHANGED <<pc, ret, locals, setupVars, lazyVars, aside, layers, istioConfigMap, resolved>>

\* The two filters, then in.hasAutoMTLSEnabled() on the layer's service.
MeshAuto ==
  /\ tlsPc = "mesh_auto"
  /\ \E getErr \in BOOLEAN :
       LET l    == lastCall.layer
           auto == hasAutoMTLSEnabled(layers[l].TLS, getErr, istioConfigMap)
       IN  /\ layers' = [layers EXCEPT ![l].TLS = auto.tls]
           /\ resolved' = [resolved EXCEPT ![l] = LastLookup(@, auto)]
           /\ lastCall' = [lastCall EXCEPT
                             !.in = auto.tls,
                             !.lookups = auto.lookups,
                             !.lookupVia = auto.via,
                             !.outcome = auto.outcome,
                             !.input = MeshMtlsInput(lastCall.namespaces, lastCall.list,
                                                     auto.ret)]
  /\ tlsPc' = "mesh_score"
  /\ UNCHANGED <<pc, ret, locals, setupVars, lazyVars, aside, istioConfigMap>>

\* mtlsStatus.MeshMtlsStatus().OverallStatus, and the return
MeshScore ==
  /\ tlsPc = "mesh_score"
  /\ \E overall \in MTLSLabels :
       lastCall' = [lastCall EXCEPT !.scored = TRUE, !.result = MTLSStatusOf(overall)]
  /\ tlsPc' = "idle"
  /\ UNCHANGED <<pc, ret, locals, setupVars, lazyVars, aside, layers, istioConfigMap, resolved>>

\* in.NamespaceWidemTLSStatus(namespace) is called on layer l's TLS service
\* (value receiver: in is a copy of the layer's service).
NamespaceWidemTLSStatus(l) ==
  /\ tlsPc = "idle"
  /\ l \in 1..Len(layers)
  /\ \E namespace \in Namespaces :
       lastCall' = [NoCall EXCEPT !.op = "NamespaceWidemTLSStatus", !.layer = l,
                                  !.namespace = namespace, !.in = layers[l].TLS,
                                  !.before = resolved[l]]
  /\ tlsPc' = "ns_namespaces"
  /\ UNCHANGED <<pc, ret, locals, setupVars, lazyVars, aside, layers, istioConfigMap, resolved>>

\* A namespace listing whose failure is handed to the caller.
NsNamespacesReturnsError ==
  /\ tlsPc = "ns_namespaces"
  /\ LET listing == [lastCall EXCEPT !.namespacesListedBy = lastCall.in.businessLayer]
     IN  \/ /\ lastCall' = [listing EXCEPT !.failedAt = "namespaces", !.err = TRUE,
                                               !.result = ZeroStatus]
            /\ tlsPc' = "idle"
         \/ /\ \E nss \in SUBSET Namespaces : lastCall' = [listing EXCEPT !.nss = nss]
            /\ tlsPc' = "ns_list"
  /\ UNCHANGED <<pc, ret, locals, setupVars, lazyVars, aside, layers, istioConfigMap, resolved>>

\* in.getNamespaces(), and the return on its error: models.MTLSStatus{}, nil
NsNamespaces ==
  /\ tlsPc = "ns_namespaces"
  /\ LET listing == [lastCall EXCEPT !.namespacesListedBy = lastCall.in.businessLayer]
     IN  \/ /\ lastCall' = [listing EXCEPT !.failedAt = "namespaces",
                                               !.result = ZeroStatus]
            /\ tlsPc' = "idle"
         \/ /\ \E nss \in SUBSET Namespaces : lastCall' = [listing EXCEPT !.nss = nss]
            /\ tlsPc' = "ns_list"
  /\ UNCHANGED <<pc, ret, locals, setupVars, lazyVars, aside, layers, istioConfigMap, resolved>>

\* in.businessLayer.IstioConfig.GetIstioConfigList(criteria), and the return on its error
NsList ==
  /\ tlsPc = "ns_list"
  /\ LET listing == [lastCall EXCEPT !.configListedBy =
                        layers[lastCall.in.businessLayer].IstioConfig.businessLayer]
     IN  \/ /\ lastCall' = [listing EXCEPT !.failedAt = "config", !.err = TRUE,
                                               !.result = ZeroStatus]
            /\ tlsPc' = "idle"
         \/ /\ \E list \in ConfigLists : lastCall' = [listing EXCEPT !.list = list]
            /\ tlsPc' = "ns_auto"
  /\ UNCHANGED <<pc, ret, locals, setupVars, lazyVars, aside, layers, istioConfigMap, resolved>>

\* The two filters, then in.hasAutoMTLSEnabled() on the copy: what it stores
\* stays on the copy, and the layer's service is left as it was.
NsAuto ==
  /\ tlsPc = "ns_auto"
  /\ \E getErr \in BOOLEAN :
       LET auto == hasAutoMTLSEnabled(lastCall.in, getErr, istioConfigMap)
       IN  /\ resolved' = [resolved EXCEPT ![lastCall.layer] = LastLookup(@, auto)]
           /\ lastCall' = [lastCall EXCEPT
                             !.in = auto.tls,
                             !.lookups = auto.lookups,
                             !.lookupVia = auto.via,
                             !.outcome = auto.outcome,
                             !.input = NamespaceMtlsInput(lastCall.namespace, lastCall.nss,
                                                          lastCall.list, auto.ret)]
  /\ tlsPc' = "ns_score"
  /\ UNCHANGED <<pc, ret, locals, setupVars, lazyVars, aside, layers, istioConfigMap>>

\* mtlsStatus.NamespaceMtlsStatus().OverallStatus, and the return
NsScore ==
  /\ tlsPc = "ns_score"
  /\ \E overall \in MTLSLabels :
       lastCall' = [lastCall EXCEPT !.scored = TRUE, !.result = MTLSStatusOf(overall)]
  /\ tlsPc' = "idle"
  /\ UNCHANGED <<pc, ret, locals, setupVars, lazyVars, aside, layers, istioConfigMap, resolved>>

\* The control plane's config object is changed by its owner.
ConfigMapChanges ==
  /\ \E content \in {"on", "off", "bad"} :
       /\ content /= istioConfigMap
       /\ istioConfigMap' = content
  /\ UNCHANGED <<pc, ret, locals, setupVars, lazyVars, aside, layers, lastCall, tlsPc, resolved>>

\* ------------------------------------------------- the browser's login
\* authenticationConfig.strategy: the strategies of the dispatcher's map, and
\* "ldap" for a name the map does not hold.
AuthStrategies == {"anonymous", "openshift", "token", "openid", "header", "ldap"}

\* this.strategyMapping, as the constructor fills it
strategyMapping ==
  [s \in {"anonymous", "openshift", "token", "openid", "header"} |->
     CASE s = "anonymous" -> "AnonymousLogin"
       [] s = "openshift" -> "OAuthLogin"
       [] s = "token"     -> "TokenLogin"
       [] s = "openid"    -> "OAuthLogin"
       [] s = "header"    -> "HeaderLogin"]

\* info.authorizationEndpoint: undefined, empty, or a URL
Endpoints == {Nil, "", "https://idp/authorize"}
Falsy(x) == x \in {Nil, ""}

\* window.location.hash, cut into the pieces the pattern tells apart
Hashes == {<<>>,
           <<"#", "access_token", "=", "x">>,
           <<"#", "state", "=", "x", "&", "id_token", "=", "x">>,
           <<"#", "error", "=", "x">>,
           <<"#", "id_token">>}

\* /[#&](access_token|id_token)=/.test(hash)
PatternTest(hash) ==
  \E i \in 1..Len(hash) :
    /\ i + 2 <= Len(hash)
    /\ hash[i] \in {"#", "&"}
    /\ hash[i + 1] \in {"access_token", "id_token"}
    /\ hash[i + 2] = "="

\* prepare(info) of the strategy classes
StrategyPrepare(class, authorizationEndpoint, hash) ==
  IF class = "OAuthLogin"
    THEN IF Falsy(authorizationEndpoint) THEN "FAILURE"
         ELSE IF PatternTest(hash) THEN "CONTINUE" ELSE "HOLD"
    ELSE "CONTINUE"   \* AnonymousLogin, TokenLogin, HeaderLogin

\* LoginDispatcher.prepare() is called: it picks the strategy and calls its
\* prepare(info); on a name without a mapping that call throws a TypeError.
LoginPrepare ==
  /\ login.pc = "idle"
  /\ \E s \in AuthStrategies, e \in Endpoints, h \in Hashes :
       login' = [NoLogin EXCEPT
                   !.pc = "strategy", !.strategy = s,
                   !.authorizationEndpoint = e, !.hash = h,
                   !.outcome = IF s \in DOMAIN strategyMapping
                                 THEN [kind |-> "value",
                                       value |-> StrategyPrepare(strategyMapping[s], e, h)]
                                 ELSE [kind |-> "thrown", value |-> "TypeError"]]
  /\ UNCHANGED <<pc, ret, locals, setupVars, lazyVars, cfg, cacheStops, layers, tlsVars>>

\* A dispatcher that hands the strategy's answer on as it is.
LoginStrategySettlesPassesHold ==
  /\ login.pc = "strategy"
  /\ login' = IF login.outcome.kind = "thrown"
                THEN [login EXCEPT !.pc = "idle", !.settled = "rejected",
                                   !.status = "FAILURE", !.error = login.outcome.value]
                ELSE [login EXCEPT !.pc = "idle", !.settled = "resolved",
                                   !.value = login.outcome.value]
  /\ UNCHANGED <<pc, ret, locals, setupVars, lazyVars, cfg, cacheStops, layers, tlsVars>>

\* The await of strategy.prepare(info) resumes: the catch on a throw, the
\* start of delay() on HOLD, the return of the result otherwise.
LoginStrategySettles ==
  /\ login.pc = "strategy"
  /\ login' = IF login.outcome.kind = "thrown"
                THEN [login EXCEPT !.pc = "idle", !.settled = "rejected",
                                   !.status = "FAILURE", !.error = login.outcome.value]
              ELSE IF login.outcome.value = "HOLD"
                THEN [login EXCEPT !.pc = "hold", !.waited = 0]
              ELSE [login EXCEPT !.pc = "idle", !.settled = "resolved",
                                 !.value = login.outcome.value]
  /\ UNCHANGED <<pc, ret, locals, setupVars, lazyVars, cfg, cacheStops, layers, tlsVars>>

\* Time passes while delay() is pending.
LoginTick ==
  /\ login.pc = "hold"
  /\ login.waited < HoldDelayMs
  /\ login' = [login EXCEPT !.waited = IF @ + TickMs > HoldDelayMs THEN HoldDelayMs
                                       ELSE @ + TickMs]
  /\ UNCHANGED <<pc, ret, locals, setupVars, lazyVars, cfg, cacheStops, layers, tlsVars>>

\* The timer of delay() fires: return Promise.reject({status, error}), which
\* the catch of prepare() does not see.
LoginDelayOver ==
  /\ login.pc = "hold"
  /\ login.waited = HoldDelayMs
  /\ login' = [login EXCEPT !.pc = "idle", !.settled = "rejected",
                            !.status = "FAILURE",
                            !.error = "Failed to redirect user to authentication page."]
  /\ UNCHANGED <<pc, ret, locals, setupVars, lazyVars, cfg, cacheStops, layers, tlsVars>>

\* ------------------------------------------------------ the specifications
\* Bring-up: goroutines calling Start().
Next ==
  \E t \in Threads :
    \/ Start(t)
    \/ OnceDo(t)
    \/ OnceDoSlow(t)
    \/ OnceReturn(t)
    \/ InitFactory(t)
    \/ InitSeed(t)
    \/ InitNewCache(t)
    \/ InitNewCacheEnd(t)

Spec == Init /\ [][Next]_vars

\* What bring-up leaves behind, by the return of initKialiCache it took: the
\* client factory failed; the cache is disabled; the cache was built.  Each is
\* a state Spec reaches with every goroutine back from Start().
SetupLeft ==
  \/ /\ cfg = [CacheEnabled |-> TRUE, AllNamespacesAccessible |-> TRUE]
     /\ clientFactory = Nil /\ kialiCache = Nil /\ initOutcome = "failed"
     /\ cacheObj = [state |-> "none", ns |-> {}, kinds |-> {}]
  \/ /\ cfg = [CacheEnabled |-> FALSE, AllNamespacesAccessible |-> TRUE]
     /\ clientFactory = "factory" /\ kialiCache = Nil /\ initOutcome = "ok"
     /\ cacheObj = [state |-> "none", ns |-> {}, kinds |-> {}]
  \/ /\ cfg = [CacheEnabled |-> TRUE, AllNamespacesAccessible |-> TRUE]
     /\ clientFactory = "factory" /\ kialiCache = "cache" /\ initOutcome = "ok"
     /\ cacheObj = [state |-> "built", ns |-> Namespaces, kinds |-> {"PeerAuthentication"}]

BroughtUp ==
  /\ SetupLeft
  /\ pc = [t \in Threads |-> "idle"]
  /\ ret = [t \in Threads |-> [NoRet EXCEPT !.op = "Start"]]
  /\ seen = [t \in Threads |-> [returned |-> TRUE, cf |-> clientFactory, kc |-> kialiCache]]
  /\ once = [done |-> TRUE, m |-> 0]
  /\ excludedWorkloads = "set"
  /\ namespaceSeedList = [t \in Threads |-> {}]
  /\ initRuns = 1

InitServing ==
  /\ BroughtUp
  /\ authInfo = [t \in Threads |-> Nil]
  /\ userClients = [t \in Threads |-> NoClients]
  /\ usedLayer = [t \in Threads |-> 0]
  /\ jerr = [t \in Threads |-> FALSE]
  /\ overlapped = [t \in Threads |-> FALSE]
  /\ enteredAfterProm = [t \in Threads |-> FALSE]
  /\ enteredAfterJaeger = [t \in Threads |-> FALSE]
  /\ prometheusClient = 0
  /\ jaegerClient = NoJaeger
  /\ layers = <<>>
  /\ promBuilt = 0
  /\ jaegerBuilt = 0
  /\ istioConfigMap = "on"
  /\ lastCall = NoCall
  /\ tlsPc = "idle"
  /\ resolved = [l \in 1..MaxLayers |-> "never"]
  /\ cacheStops = 0
  /\ login = NoLogin

\* Serving: request handlers calling Get() after bring-up.
NextGet ==
  \E t \in Threads :
    \/ Get(t)
    \/ GetClients(t)
    \/ GetPromCheck(t)
    \/ GetPromNew(t)
    \/ GetBuild(t)

SpecGet == InitServing /\ [][NextGet]_vars

\* Serving, with the layers' services calling their Jaeger loader.
NextJaeger ==
  \E t \in Threads :
    \/ Get(t)
    \/ GetClients(t)
    \/ GetPromCheck(t)
    \/ GetPromNew(t)
    \/ GetBuild(t)
    \/ JaegerLoader(t)
    \/ JlCheck(t)
    \/ JlNew(t)
    \/ JlRet(t)

SpecJaeger == InitServing /\ [][NextJaeger]_vars

\* Two requests of the same identity, each with the layer Get() built for it,
\* calling the TLS service.  The cache is there or not as bring-up left it.
InitTLS ==
  /\ BroughtUp
  /\ clientFactory /= Nil
  /\ authInfo = [t \in Threads |-> Nil]
  /\ userClients = [t \in Threads |-> NoClients]
  /\ usedLayer = [t \in Threads |-> 0]
  /\ jerr = [t \in Threads |-> FALSE]
  /\ overlapped = [t \in Threads |-> FALSE]
  /\ enteredAfterProm = [t \in Threads |-> FALSE]
  /\ enteredAfterJaeger = [t \in Threads |-> FALSE]
  /\ prometheusClient = 1
  /\ jaegerClient = NoJaeger
  /\ layers = <<NewWithBackends(1, GetClientsOf(clientFactory, "alice"),
                                GetSAClients(clientFactory), 1, "alice"),
                NewWithBackends(2, GetClientsOf(clientFactory, "alice"),
                                GetSAClients(clientFactory), 1, "alice")>>
  /\ promBuilt = 1
  /\ jaegerBuilt = 0
  /\ istioConfigMap \in {"on", "off", "bad"}
  /\ lastCall = NoCall
  /\ tlsPc = "idle"
  /\ resolved = [l \in 1..MaxLayers |-> "never"]
  /\ cacheStops = 0
  /\ login = NoLogin

NextTLS ==
  \/ \E l \in 1..Len(layers) : MeshWidemTLSStatus(l)
  \/ MeshList
  \/ MeshAuto
  \/ MeshScore
  \/ \E l \in 1..Len(layers) : NamespaceWidemTLSStatus(l)
  \/ NsNamespaces
  \/ NsList
  \/ NsAuto
  \/ NsScore
  \/ ConfigMapChanges

SpecTLS == InitTLS /\ [][NextTLS]_vars

\* Bring-up and tear-down: goroutines calling Start() and Stop().
NextStop ==
  \E t \in Threads :
    \/ Start(t)
    \/ OnceDo(t)
    \/ OnceDoSlow(t)
    \/ OnceReturn(t)
    \/ InitFactory(t)
    \/ InitSeed(t)
    \/ InitNewCache(t)
    \/ InitNewCacheEnd(t)
    \/ Stop(t)
    \/ StopCache(t)

SpecStop == Init /\ [][NextStop]_vars

\* The browser calling LoginDispatcher.prepare().
NextLogin ==
  \/ LoginPrepare
  \/ LoginStrategySettles
  \/ LoginTick
  \/ LoginDelayOver

SpecLogin == Init /\ [][NextLogin]_vars

\* Every state bring-up leaves behind is one Spec reaches.
NotBroughtUp1 == ~(BroughtUp /\ clientFactory = Nil)
NotBroughtUp2 == ~(BroughtUp /\ ~cfg.CacheEnabled)
NotBroughtUp3 == ~(BroughtUp /\ kialiCache /= Nil)

\* ------------------------------------------------------------- the claims
InInit(t) == pc[t] \in {"init_factory", "init_seed", "init_cache", "init_cache_end",
                        "once_ret"}
InitOver == initOutcome \in {"ok", "failed"}

\* C1: however many goroutines call Start(), concurrently or one after the
\* other, initKialiCache is executed at most once, has been executed exactly
\* once as soon as any Start() has returned, and once that execution is over
\* (with success or with failure) no goroutine is inside initKialiCache again.
C1_SetupRunsExactlyOnce ==
  /\ initRuns <= 1
  /\ Started => initRuns = 1
  /\ Cardinality({t \in Threads : InInit(t)}) <= 1
  /\ InitOver => \A t \in Threads : pc[t] \notin {"init_factory", "init_seed",
                                                  "init_cache", "init_cache_end"}

\* C1 witness: the one execution failed, every goroutine is back from Start(),
\* and one of them is calling Start() again.
C1_Witness ==
  /\ initOutcome = "failed"
  /\ initRuns = 1
  /\ \A t \in Threads : seen[t].returned
  /\ \E t \in Threads : pc[t] = "once_do"

\* C2: no Start() returns before the one execution of initKialiCache is over:
\* whenever a Start() has returned, set-up is finished, the client factory and
\* the cache handle are still what that caller found on return (so every
\* returned caller found the same), and a cache handle that is set refers to
\* a completely built cache.
C2_StartReturnsAfterSetup ==
  \A t \in Threads :
    seen[t].returned =>
      /\ InitOver
      /\ seen[t].cf = clientFactory
      /\ seen[t].kc = kialiCache
      /\ kialiCache /= Nil => cacheObj.state = "built"

\* C2 witness: two goroutines are back from Start(), the second through the
\* mutex of the once, and both found the built cache.
C2_Witness ==
  /\ \A t \in Threads : seen[t].returned /\ seen[t].kc = "cache"
  /\ cacheObj.state = "built"
  /\ initRuns = 1

\* C3: when the one execution of initKialiCache failed (client factory,
\* namespace listing or cache construction), the cache handle is nil in every
\* later state, set-up is not run again by later Start() calls, and
\* IsNamespaceCached and IsResourceCached are false for every namespace and kind.
C3_FailedSetupStaysUncached ==
  /\ initRuns <= 1
  /\ initOutcome = "failed" =>
       /\ kialiCache = Nil
       /\ \A ns \in Namespaces, kind \in Kinds :
            ~IsNamespaceCached(ns) /\ ~IsResourceCached(ns, kind)

\* C3 witness: the cache construction failed on a cache object that already
\* held namespaces, every goroutine is back, and one calls Start() again.
C3_Witness ==
  /\ initOutcome = "failed"
  /\ cacheObj.state = "broken"
  /\ cacheObj.ns /= {}
  /\ \A t \in Threads : seen[t].returned
  /\ \E t \in Threads : pc[t] = "once_do"

\* C4 (as claimed): after a set-up that failed at any step, every Get() ends
\* with a layer or an error, and no Get() panics on a nil global.
C4_GetNeverPanics ==
  \A t \in Threads : pc[t] /= "panic"

\* C5: for every namespace and kind, IsResourceCached(ns, kind) holds only if
\* IsNamespaceCached(ns) holds, and both are false while the cache handle is nil.
C5_ResourceCachedOnlyIfNamespaceCached ==
  \A ns \in Namespaces, kind \in Kinds :
    /\ IsResourceCached(ns, kind) => IsNamespaceCached(ns)
    /\ kialiCache = Nil => ~IsResourceCached(ns, kind) /\ ~IsNamespaceCached(ns)

\* C5 witness: a built cache that covers one namespace and not another, and a
\* resource kind that is cached in the covered namespace.
C5_Witness ==
  /\ kialiCache /= Nil
  /\ \E ns \in Namespaces, other \in Namespaces, kind \in Kinds \ {""} :
       /\ IsResourceCached(ns, kind)
       /\ ~IsNamespaceCached(other)
       /\ CheckIstioResource(kind)

\* C6 (as claimed): at most one Prometheus client is ever constructed, and
\* every layer is built with that one client.
C6_OnePrometheusClient ==
  /\ promBuilt <= 1
  /\ \A i \in 1..Len(layers) : layers[i].prom = 1

\* C7 (as claimed): a Get() whose construction of the Prometheus client fails
\* returns the error and no layer, and a Get() that begins after a
\* construction has succeeded never constructs a Prometheus client.
C7_NoConstructionAfterSuccess ==
  \A t \in Threads :
    /\ (ret[t].op = "Get" /\ ret[t].err) => ret[t].layer = 0
    /\ pc[t] = "get_prom_new" => ~enteredAfterProm[t]

\* C8: every Get() that comes back without an error returns a layer; the
\* layers returned to two calls that ran concurrently for the same identity
\* are distinct instances; and every layer is built over the one
\* service-account client set of the process's client factory.
C8_DistinctLayersShareSAClients ==
  /\ \A t \in Threads :
       (ret[t].op = "Get" /\ ~ret[t].err) => ret[t].layer \in 1..Len(layers)
  /\ \A t, u \in Threads :
       (t /= u /\ ret[t].op = "Get" /\ ret[u].op = "Get" /\ ~ret[t].err /\ ~ret[u].err)
         => /\ ret[t].layer /= ret[u].layer
            /\ layers[ret[t].layer].id /= layers[ret[u].layer].id
            /\ layers[ret[t].layer].Namespace.kialiSAClients
                 = layers[ret[u].layer].Namespace.kialiSAClients
  /\ \A i \in 1..Len(layers) :
       layers[i].Namespace.kialiSAClients = GetSAClients(clientFactory)

\* C8 witness: two Get() calls for the same identity overlapped and both
\* returned a layer.
C8_Witness ==
  \E t, u \in Threads :
    /\ t /= u
    /\ ret[t].op = "Get" /\ ret[u].op = "Get"
    /\ ret[t].layer /= 0 /\ ret[u].layer /= 0
    /\ overlapped[t] /\ overlapped[u]
    /\ layers[ret[t].layer].k8sClients.identity = layers[ret[u].layer].k8sClients.identity

\* C9 (as claimed): the Jaeger client is one per process: every loader
\* invocation that begins after a construction has succeeded and returns
\* without an error returns the first client successfully built, whichever
\* layer and identity it was invoked for.
C9_OneJaegerClientForAll ==
  \A t \in Threads :
    (ret[t].op = "Jaeger" /\ ~ret[t].err /\ enteredAfterJaeger[t])
      => ret[t].client.id = 1

NsBuilt   == lastCall.op = "NamespaceWidemTLSStatus"
               /\ (tlsPc = "ns_score" \/ (tlsPc = "idle" /\ lastCall.scored))
MeshBuilt == lastCall.op = "MeshWidemTLSStatus"
               /\ (tlsPc = "mesh_score" \/ (tlsPc = "idle" /\ lastCall.scored))

\* The objects of a list that live in a namespace, told without the filters.
ObjectsOf(namespaces, objs) ==
  {objs[i] : i \in {j \in 1..Len(objs) : objs[j].Namespace \in namespaces}}

\* C11: NamespaceWidemTLSStatus(root namespace) hands the scoring an empty
\* list of peer authentications whatever the listing returned for the root
\* namespace; for any other namespace it hands over exactly the listed peer
\* authentications of that namespace.
C11_RootNamespaceScoresNoPeerAuthentications ==
  NsBuilt =>
    LET pas == lastCall.input.PeerAuthentications
    IN  IF lastCall.namespace = RootNamespace
          THEN pas = <<>>
          ELSE /\ Range(pas) = ObjectsOf({lastCall.namespace}, lastCall.list.pas)
               /\ Len(pas) = Cardinality(Range(pas))

\* C11 witness: a NamespaceWidemTLSStatus call for the root namespace was
\* scored while the listing held a peer authentication of the root namespace.
C11_Witness ==
  /\ NsBuilt /\ lastCall.scored
  /\ lastCall.namespace = RootNamespace
  /\ ObjectsOf({RootNamespace}, lastCall.list.pas) /= {}
  /\ lastCall.input.PeerAuthentications = <<>>

\* A status call that has run hasAutoMTLSEnabled.
AutoDone == NsBuilt \/ MeshBuilt

\* C12: when the lookup of the control plane's config object fails, through
\* the cache or through the live client, or its parsing fails,
\* hasAutoMTLSEnabled answers true and stores nothing, neither on the
\* receiver nor on the layer's service; and a call made for a layer whose last
\* lookup failed performs the lookup again.
C12_FailedLookupAnswersTrueUnstored ==
  AutoDone =>
    /\ lastCall.outcome \in {"lookup_failed", "parse_failed"} =>
         /\ lastCall.input.AutoMtlsEnabled
         /\ lastCall.lookups = 1
         /\ lastCall.lookupVia \in {"cache", "k8s"}
         /\ lastCall.in.enabledAutoMtls = Nil
         /\ layers[lastCall.layer].TLS.enabledAutoMtls = Nil
    /\ lastCall.before = "failed" =>
         /\ lastCall.lookups = 1
         /\ lastCall.outcome /= "stored"

\* C12 witness: a MeshWidemTLSStatus call on a layer whose last lookup had
\* failed looked the config object up again, through the cache, and could not
\* parse it.
C12_Witness ==
  /\ MeshBuilt /\ lastCall.scored
  /\ lastCall.before = "failed"
  /\ lastCall.outcome = "parse_failed"
  /\ lastCall.lookupVia = "cache"
  /\ lastCall.input.AutoMtlsEnabled

\* C13 (as claimed): once a lookup made for a layer has resolved the auto-mTLS
\* flag, whichever of the two status methods made it, every later status call
\* on that layer answers from the stored value and looks nothing up.
C13_ResolvedOncePerLayer ==
  (AutoDone /\ lastCall.before = "ok") =>
    /\ lastCall.lookups = 0
    /\ lastCall.outcome = "stored"

\* C14: a NamespaceWidemTLSStatus call whose namespace listing fails returns
\* the zero status and no error, having listed no config objects and not run
\* hasAutoMTLSEnabled; one whose config listing fails returns the zero status
\* with the error, the flag unresolved as well.
C14_NamespaceListingFailureSwallowed ==
  lastCall.op = "NamespaceWidemTLSStatus" =>
    /\ lastCall.failedAt = "namespaces" =>
         /\ tlsPc = "idle"
         /\ lastCall.result = ZeroStatus
         /\ ~lastCall.err
         /\ lastCall.namespacesListedBy /= 0
         /\ lastCall.configListedBy = 0
         /\ lastCall.list = NoList
         /\ lastCall.lookups = 0 /\ lastCall.outcome = "none"
         /\ ~lastCall.scored
    /\ lastCall.failedAt = "config" =>
         /\ tlsPc = "idle"
         /\ lastCall.result = ZeroStatus
         /\ lastCall.err
         /\ lastCall.configListedBy /= 0
         /\ lastCall.lookups = 0 /\ lastCall.outcome = "none"
         /\ ~lastCall.scored
    /\ lastCall.err => lastCall.failedAt = "config"

\* C14 witness: a NamespaceWidemTLSStatus call came back from a failed
\* namespace listing.
C14_Witness ==
  /\ lastCall.op = "NamespaceWidemTLSStatus"
  /\ tlsPc = "idle"
  /\ lastCall.failedAt = "namespaces"
  /\ lastCall.result = ZeroStatus /\ ~lastCall.err

\* C15 (as claimed): Stop() does nothing while the cache handle is nil, and
\* however often Stop() is called the cache's Stop is invoked at most once.
C15_CacheStoppedAtMostOnce ==
  /\ kialiCache = Nil => cacheStops = 0
  /\ cacheStops <= 1

\* C16: every layer is an instance of its own: its services refer back to
\* the layer they were built into, a TLS status call lists namespaces and
\* config objects through the services of the layer it was called on, and an
\* auto-mTLS flag stored on a layer's TLS service was resolved by a call on
\* that layer, so that a call on another layer, built for the same identity,
\* finds its own service unresolved.
C16_LayersAreIndependent ==
  /\ \A i \in 1..Len(layers) :
       /\ layers[i].id = i
       /\ layers[i].TLS.businessLayer = i
       /\ layers[i].IstioConfig.businessLayer = i
       /\ layers[i].Jaeger.businessLayer = i
       /\ layers[i].Workload.businessLayer = i
       /\ layers[i].TLS.enabledAutoMtls /= Nil => resolved[i] = "ok"
  /\ lastCall.op /= "none" =>
       /\ lastCall.in.businessLayer = lastCall.layer
       /\ lastCall.namespacesListedBy \in {0, lastCall.layer}
       /\ lastCall.configListedBy \in {0, lastCall.layer}
       /\ (AutoDone /\ lastCall.before = "never") => lastCall.lookups = 1

\* C16 witness: the flag is stored on the first layer, and a status call on
\* the second layer, built for the same identity, found no stored value and
\* looked the config object up through its own services.
C16_Witness ==
  /\ Len(layers) = 2
  /\ layers[1].k8sClients.identity = layers[2].k8sClients.identity
  /\ layers[1].TLS.enabledAutoMtls /= Nil
  /\ layers[2].TLS.enabledAutoMtls = Nil
  /\ MeshBuilt /\ lastCall.layer = 2
  /\ lastCall.before = "never"
  /\ lastCall.lookups = 1
  /\ lastCall.configListedBy = 2

\* C17: MeshWidemTLSStatus(namespaces) hands the scoring exactly the listed
\* peer authentications of the root namespace, exactly the listed destination
\* rules of the given namespaces, and AllowPermissive = false; when the config
\* listing fails it returns the error with the zero status and has not run
\* hasAutoMTLSEnabled, the layer's service being as the call found it.
C17_MeshScoresRootPoliciesAndGivenRules ==
  lastCall.op = "MeshWidemTLSStatus" =>
    /\ MeshBuilt =>
         LET pas == lastCall.input.PeerAuthentications
             drs == lastCall.input.DestinationRules
         IN  /\ Range(pas) = ObjectsOf({RootNamespace}, lastCall.list.pas)
             /\ Len(pas) = Cardinality(Range(pas))
             /\ Range(drs) = ObjectsOf(lastCall.namespaces, lastCall.list.drs)
             /\ Len(drs) = Cardinality(Range(drs))
             /\ ~lastCall.input.AllowPermissive
             /\ ~lastCall.err
    /\ lastCall.failedAt = "config" =>
         /\ tlsPc = "idle"
         /\ lastCall.err
         /\ lastCall.result = ZeroStatus
         /\ lastCall.lookups = 0 /\ lastCall.outcome = "none"
         /\ ~lastCall.scored
         /\ layers[lastCall.layer].TLS = lastCall.in
         /\ resolved[lastCall.layer] = lastCall.before
    /\ lastCall.err => lastCall.failedAt = "config"

\* C17 witness: a MeshWidemTLSStatus call for the namespace "default" was
\* scored over a listing that holds objects of both namespaces.
C17_Witness ==
  /\ MeshBuilt /\ lastCall.scored
  /\ lastCall.namespaces = {"default"}
  /\ Len(lastCall.list.pas) = 2 /\ Len(lastCall.list.drs) = 2
  /\ Len(lastCall.input.PeerAuthentications) = 1
  /\ lastCall.input.PeerAuthentications[1].Namespace = RootNamespace
  /\ Len(lastCall.input.DestinationRules) = 1
  /\ lastCall.input.DestinationRules[1].Namespace = "default"

\* The step in which clientFactory.GetClients rejects the identity of t's Get.
Rejected(t) ==
  /\ pc[t] = "get_clients" /\ clientFactory /= Nil
  /\ pc'[t] \notin {"get_clients", "get_prom"}

\* C18: the step of a Get() in which the client provider rejects the
\* identity is its last: the call returns the error and no layer without
\* consulting the provider again, and the step changes nothing of the
\* process-wide state: no Prometheus client and no Jaeger client is built or
\* dropped, no layer is built, and the set-up globals are as they were.
C18_RejectedGetChangesNothing ==
  [][\A t \in Threads :
       Rejected(t) =>
         /\ pc'[t] = "idle"
         /\ ret'[t] = [NoRet EXCEPT !.op = "Get", !.err = TRUE, !.errFrom = "GetClients"]
         /\ ret'[t].layer = 0
         /\ UNCHANGED <<prometheusClient, jaegerClient, promBuilt, jaegerBuilt, layers,
                        setupVars, aside>>]_vars

\* C18 witness: a Get() came back rejected by the client provider while the
\* process held a Prometheus client and a layer built by another Get().
C18_Witness ==
  \E t \in Threads :
    /\ ret[t].op = "Get" /\ ret[t].errFrom = "GetClients"
    /\ pc[t] = "idle"
    /\ prometheusClient /= 0
    /\ Len(layers) = 1

\* C19: LoginDispatcher.prepare() never resolves with HOLD: it resolves with
\* the strategy's own result, CONTINUE or FAILURE; on HOLD it stays pending
\* for the whole hold delay and then rejects with status FAILURE; and when the
\* call of the strategy's prepare throws it rejects with status FAILURE and
\* the error thrown.
C19_PrepareNeverResolvesWithHold ==
  /\ login.settled = "resolved" =>
       /\ login.outcome.kind = "value"
       /\ login.value = login.outcome.value
       /\ login.value \in {"CONTINUE", "FAILURE"}
       /\ login.waited = 0
  /\ login.settled = "rejected" =>
       /\ login.status = "FAILURE"
       /\ \/ /\ login.outcome = [kind |-> "value", value |-> "HOLD"]
             /\ login.waited = HoldDelayMs
             /\ login.error = "Failed to redirect user to authentication page."
          \/ /\ login.outcome.kind = "thrown"
             /\ login.error = login.outcome.value
             /\ login.waited = 0
  /\ (login.outcome.kind = "value" /\ login.outcome.value = "HOLD") =>
       \/ login.pc = "strategy"
       \/ login.pc = "hold" /\ login.settled = "none"
       \/ login.pc = "idle" /\ login.settled = "rejected"
  /\ login.outcome.kind = "thrown" => login.settled \in {"none", "rejected"}

\* C19 witness: with the openid strategy, an authorization endpoint and a
\* hash that carries no token, prepare() was rejected after the hold delay.
C19_Witness ==
  /\ login.strategy = "openid"
  /\ ~Falsy(login.authorizationEndpoint)
  /\ login.hash = <<"#", "error", "=", "x">>
  /\ login.outcome.value = "HOLD"
  /\ login.settled = "rejected"
  /\ login.waited = HoldDelayMs
  /\ login.status = "FAILURE"

=============================================================================
